---- MODULE Spec2Model ----
(***************************************************************************)
(* Model of the field-name registry (core/field_name_mapper.py) and of the *)
(* formula AST compiler (converters/ast_to_lookml_converter.py).           *)
(*                                                                         *)
(* Field names are sequences of one-character strings, so that lower(),    *)
(* upper(), replace(" ", "_"), strip("[]") and the bracketed form are      *)
(* computed character by character as Python computes them.                *)
(***************************************************************************)
EXTENDS Integers, Sequences, FiniteSets, TLC

VARIABLES
    original_to_clean,   \* dict, as the sequence of its items in insertion order
    clean_to_original,   \* dict, as a function on its key set
    registered_fields,   \* set of names
    calculated_fields,   \* set of names
    calls,               \* history: the calls made so far, with their arguments
    ast_node,            \* convert_to_lookml: the tree handed to the converter
    table_context,       \* convert_to_lookml: the table context argument
    result,              \* convert_to_lookml: the returned string
    pc,                  \* convert_to_lookml: "ready" before the call, "done" after
    caption,             \* create_clean_name_from_caption: the argument
    derived,             \* create_clean_name_from_caption: what each call returned
    threads              \* concurrent readers: each thread's call, position and locals

mapperVars == <<original_to_clean, clean_to_original, registered_fields,
                calculated_fields, calls>>
convVars == <<ast_node, table_context, result, pc>>
nameVars == <<caption, derived>>
poolVars == <<threads>>
vars == <<mapperVars, convVars, nameVars, poolVars>>

-----------------------------------------------------------------------------
(* Bounds *)

MaxCalls == 3

\* length of the captions handed to create_clean_name_from_caption
MaxCaption == 3

\* length of the field names and string values of leaf nodes
MaxText == 2

\* number of arguments of a function call
MaxArgs == 2

\* nesting depth of the trees handed to the compiler
MaxDepth == 2

-----------------------------------------------------------------------------
(* Python str operations, on sequences of characters *)

LowerLetters == <<"a", "b", "c", "d", "e", "f", "g", "h", "i", "j", "k", "l", "m",
                  "n", "o", "p", "q", "r", "s", "t", "u", "v", "w", "x", "y", "z">>
UpperLetters == <<"A", "B", "C", "D", "E", "F", "G", "H", "I", "J", "K", "L", "M",
                  "N", "O", "P", "Q", "R", "S", "T", "U", "V", "W", "X", "Y", "Z">>

UpperSet == {UpperLetters[i] : i \in 1..Len(UpperLetters)}
LowerSet == {LowerLetters[i] : i \in 1..Len(LowerLetters)}

\* upper-case letter -> lower-case letter, and back
ToLower == [ch \in UpperSet |->
               LowerLetters[CHOOSE i \in 1..Len(UpperLetters) : UpperLetters[i] = ch]]
ToUpper == [ch \in LowerSet |->
               UpperLetters[CHOOSE i \in 1..Len(LowerLetters) : LowerLetters[i] = ch]]

LowerChar(ch) == IF ch \in UpperSet THEN ToLower[ch] ELSE ch

UpperChar(ch) == IF ch \in LowerSet THEN ToUpper[ch] ELSE ch

\* str.lower()
Lower(s) == [i \in 1..Len(s) |-> LowerChar(s[i])]

\* str.upper()
Upper(s) == [i \in 1..Len(s) |-> UpperChar(s[i])]

\* str.replace(" ", "_")
ReplaceSpace(s) == [i \in 1..Len(s) |-> IF s[i] = " " THEN "_" ELSE s[i]]

\* f"[{s}]"
Bracketed(s) == <<"[">> \o s \o <<"]">>

IsBracketChar(ch) == ch \in {"[", "]"}

\* str.strip("[]"): drops every leading and trailing character that is
\* '[' or ']'
Strip(s) ==
    LET keep == {i \in 1..Len(s) : ~IsBracketChar(s[i])}
    IN  IF keep = {} THEN <<>>
        ELSE LET lo == CHOOSE i \in keep : \A j \in keep : i <= j
                 hi == CHOOSE i \in keep : \A j \in keep : j <= i
             IN  SubSeq(s, lo, hi)

\* original_name.lower().replace(" ", "_")
Cleaned(s) == ReplaceSpace(Lower(s))

Digits == {"0", "1", "2", "3", "4", "5", "6", "7", "8", "9"}

\* s.replace("%", word)
ReplacePercent(s, word) ==
    IF s = <<>> THEN <<>>
    ELSE LET F[i \in 1..Len(s)] ==
                LET piece == IF s[i] = "%" THEN word ELSE <<s[i]>>
                IN  IF i = 1 THEN piece ELSE F[i - 1] \o piece
         IN  F[Len(s)]

\* a regular-expression character class, and whether it matches ch
Matches(class, ch) ==
    IF class.negated THEN ch \notin class.chars ELSE ch \in class.chars

\* [^a-z0-9]
NotAlnum == [negated |-> TRUE, chars |-> LowerSet \cup Digits]

\* _
IsUnderscore == [negated |-> FALSE, chars |-> {"_"}]

\* re.sub of a character class with "+": every maximal run of characters
\* the class matches becomes one "_"
SubRuns(s, class) ==
    IF s = <<>> THEN <<>>
    ELSE LET F[i \in 1..Len(s)] ==
                LET piece == IF ~Matches(class, s[i]) THEN <<s[i]>>
                             ELSE IF i > 1 /\ Matches(class, s[i - 1]) THEN <<>>
                             ELSE <<"_">>
                IN  IF i = 1 THEN piece ELSE F[i - 1] \o piece
         IN  F[Len(s)]

\* str.strip("_")
StripUnderscores(s) ==
    LET keep == {i \in 1..Len(s) : s[i] # "_"}
    IN  IF keep = {} THEN <<>>
        ELSE LET lo == CHOOSE i \in keep : \A j \in keep : i <= j
                 hi == CHOOSE i \in keep : \A j \in keep : j <= i
             IN  SubSeq(s, lo, hi)

-----------------------------------------------------------------------------
(* Python dict, insertion-ordered *)

DictHas(d, key) == \E i \in 1..Len(d) : d[i].k = key

DictGet(d, key) == d[CHOOSE i \in 1..Len(d) : d[i].k = key].v

\* mutant: the item is appended even when the key is present
DictSet_append(d, key, val) == Append(d, [k |-> key, v |-> val])

\* d[key] = val: an existing key keeps its position
DictSet(d, key, val) ==
    IF DictHas(d, key)
    THEN [i \in 1..Len(d) |-> IF d[i].k = key THEN [k |-> key, v |-> val] ELSE d[i]]
    ELSE Append(d, [k |-> key, v |-> val])

DictKeys(d) == {d[i].k : i \in 1..Len(d)}

DictItems(d) == {<<d[i].k, d[i].v>> : i \in 1..Len(d)}

FunSet(f, key, val) ==
    [x \in DOMAIN f \cup {key} |-> IF x = key THEN val ELSE f[x]]

EmptyFun == [x \in {} |-> <<>>]

-----------------------------------------------------------------------------
(* FieldNameMapper *)

\* Optional[str]
NoneVal == [some |-> FALSE, val |-> <<>>]
Some(s) == [some |-> TRUE, val |-> s]

\* truthiness of an Optional[str]: neither None nor the empty string
Truthy(r) == r.some /\ r.val # <<>>

\* mutant: the names are flagged calculated whatever is_calculated says
RegisterResult_flag_always(otc, cto, reg, calc, original_name, clean_name, is_calculated) ==
    LET bracketed_original == Bracketed(original_name)
        cleaned_original == Cleaned(original_name)
        cleaned_bracketed == Cleaned(bracketed_original)
        otc1 == DictSet(otc, original_name, clean_name)
        otc2 == DictSet(otc1, bracketed_original, clean_name)
        add3 == cleaned_original # clean_name
        otc3 == IF add3 THEN DictSet(otc2, cleaned_original, clean_name) ELSE otc2
        add4 == cleaned_bracketed # clean_name
        otc4 == IF add4 THEN DictSet(otc3, cleaned_bracketed, clean_name) ELSE otc3
        names == {original_name, clean_name, bracketed_original}
                    \cup (IF add3 THEN {cleaned_original} ELSE {})
                    \cup (IF add4 THEN {cleaned_bracketed} ELSE {})
    IN  [otc |-> otc4,
         cto |-> FunSet(cto, clean_name, original_name),
         reg |-> reg \cup names,
         calc |-> calc \cup names]

\* The four collections after register_field(original_name, clean_name,
\* is_calculated) run on the collections (otc, cto, reg, calc).
\* mutant: the bracketed form is not added to registered_fields
RegisterResult_bracketed_unlisted(otc, cto, reg, calc, original_name, clean_name, is_calculated) ==
    LET bracketed_original == Bracketed(original_name)
        cleaned_original == Cleaned(original_name)
        cleaned_bracketed == Cleaned(bracketed_original)
        otc1 == DictSet(otc, original_name, clean_name)
        reg1 == reg \cup {original_name, clean_name}
        calc1 == IF is_calculated THEN calc \cup {clean_name, original_name} ELSE calc
        otc2 == DictSet(otc1, bracketed_original, clean_name)
        reg2 == reg1
        calc2 == IF is_calculated THEN calc1 \cup {bracketed_original} ELSE calc1
        add3 == cleaned_original # clean_name
        otc3 == IF add3 THEN DictSet(otc2, cleaned_original, clean_name) ELSE otc2
        reg3 == IF add3 THEN reg2 \cup {cleaned_original} ELSE reg2
        calc3 == IF add3 /\ is_calculated THEN calc2 \cup {cleaned_original} ELSE calc2
        add4 == cleaned_bracketed # clean_name
        otc4 == IF add4 THEN DictSet(otc3, cleaned_bracketed, clean_name) ELSE otc3
        reg4 == IF add4 THEN reg3 \cup {cleaned_bracketed} ELSE reg3
        calc4 == IF add4 /\ is_calculated THEN calc3 \cup {cleaned_bracketed} ELSE calc3
    IN  [otc |-> otc4,
         cto |-> FunSet(cto, clean_name, original_name),
         reg |-> reg4,
         calc |-> calc4]

RegisterResult(otc, cto, reg, calc, original_name, clean_name, is_calculated) ==
    LET bracketed_original == Bracketed(original_name)
        cleaned_original == Cleaned(original_name)
        cleaned_bracketed == Cleaned(bracketed_original)
        otc1 == DictSet(otc, original_name, clean_name)
        reg1 == reg \cup {original_name, clean_name}
        calc1 == IF is_calculated THEN calc \cup {clean_name, original_name} ELSE calc
        otc2 == DictSet(otc1, bracketed_original, clean_name)
        reg2 == reg1 \cup {bracketed_original}
        calc2 == IF is_calculated THEN calc1 \cup {bracketed_original} ELSE calc1
        add3 == cleaned_original # clean_name
        otc3 == IF add3 THEN DictSet(otc2, cleaned_original, clean_name) ELSE otc2
        reg3 == IF add3 THEN reg2 \cup {cleaned_original} ELSE reg2
        calc3 == IF add3 /\ is_calculated THEN calc2 \cup {cleaned_original} ELSE calc2
        add4 == cleaned_bracketed # clean_name
        otc4 == IF add4 THEN DictSet(otc3, cleaned_bracketed, clean_name) ELSE otc3
        reg4 == IF add4 THEN reg3 \cup {cleaned_bracketed} ELSE reg3
        calc4 == IF add4 /\ is_calculated THEN calc3 \cup {cleaned_bracketed} ELSE calc3
    IN  [otc |-> otc4,
         cto |-> FunSet(cto, clean_name, original_name),
         reg |-> reg4,
         calc |-> calc4]

\* mutant: the case-insensitive pass is left out
get_clean_name_case_sensitive(original_name) ==
    LET d == original_to_clean
        clean_original == Strip(original_name)
        bracketed_original == Bracketed(original_name)
    IN  IF DictHas(d, original_name) THEN Some(DictGet(d, original_name))
        ELSE IF DictHas(d, clean_original) THEN Some(DictGet(d, clean_original))
        ELSE IF DictHas(d, bracketed_original) THEN Some(DictGet(d, bracketed_original))
        ELSE NoneVal

\* get_clean_name: exact, brackets stripped, brackets added, then the first
\* item in insertion order whose lower-cased key equals one of the three
\* lower-cased forms
get_clean_name(original_name) ==
    LET d == original_to_clean
        clean_original == Strip(original_name)
        bracketed_original == Bracketed(original_name)
        forms == {Lower(original_name), Lower(clean_original), Lower(bracketed_original)}
        hits == {i \in 1..Len(d) : Lower(d[i].k) \in forms}
    IN  IF DictHas(d, original_name) THEN Some(DictGet(d, original_name))
        ELSE IF DictHas(d, clean_original) THEN Some(DictGet(d, clean_original))
        ELSE IF DictHas(d, bracketed_original) THEN Some(DictGet(d, bracketed_original))
        ELSE IF hits # {}
             THEN Some(d[CHOOSE i \in hits : \A j \in hits : i <= j].v)
             ELSE NoneVal

get_original_name(clean_name) ==
    IF clean_name \in DOMAIN clean_to_original
    THEN Some(clean_to_original[clean_name])
    ELSE NoneVal

is_registered(field_name) == field_name \in registered_fields

\* mutant: an unmapped reference is returned without its brackets
resolve_field_reference_stripped(field_reference) ==
    LET clean_name == get_clean_name(field_reference)
    IN  IF Truthy(clean_name) THEN clean_name.val
        ELSE IF DictHas(original_to_clean, field_reference)
             THEN DictGet(original_to_clean, field_reference)
             ELSE Strip(field_reference)

\* mutant: an unmapped reference is returned with brackets added
resolve_field_reference_bracketing(field_reference) ==
    LET clean_name == get_clean_name(field_reference)
    IN  IF Truthy(clean_name) THEN clean_name.val
        ELSE IF DictHas(original_to_clean, field_reference)
             THEN DictGet(original_to_clean, field_reference)
             ELSE Bracketed(field_reference)

resolve_field_reference(field_reference) ==
    LET clean_name == get_clean_name(field_reference)
    IN  IF Truthy(clean_name) THEN clean_name.val
        ELSE IF DictHas(original_to_clean, field_reference)
             THEN DictGet(original_to_clean, field_reference)
             ELSE field_reference

is_calculated_field(field_name) ==
    LET clean_name == get_clean_name(field_name)
    IN  \/ field_name \in calculated_fields
        \/ Truthy(clean_name) /\ clean_name.val \in calculated_fields

\* the characters that occur in captions
CaptionChars == {"A", "0", "%", " ", "_"}

\* mutant: a caption that is registered gets its registered clean name
create_clean_name_from_caption_registered(cap) ==
    IF DictHas(original_to_clean, cap) THEN DictGet(original_to_clean, cap)
    ELSE StripUnderscores(SubRuns(SubRuns(
            ReplacePercent(Lower(cap), <<"_", "p", "e", "r", "c", "e", "n", "t">>),
            NotAlnum), IsUnderscore))

\* mutant: the final strip("_") is left out
create_clean_name_from_caption_unstripped(cap) ==
    LET lowered == Lower(cap)
        percent == ReplacePercent(lowered, <<"_", "p", "e", "r", "c", "e", "n", "t">>)
        specials == SubRuns(percent, NotAlnum)
    IN  SubRuns(specials, IsUnderscore)

create_clean_name_from_caption(cap) ==
    LET lowered == Lower(cap)
        percent == ReplacePercent(lowered, <<"_", "p", "e", "r", "c", "e", "n", "t">>)
        specials == SubRuns(percent, NotAlnum)
        collapsed == SubRuns(specials, IsUnderscore)
    IN  StripUnderscores(collapsed)

-----------------------------------------------------------------------------
(* AST nodes: a tagged variant, each kind with the attributes the          *)
(* converter reads on it; an attribute that is absent is None.             *)

\* None where a node is expected
NoneNode == [node_type |-> "None"]

\* None where a str is expected; an f-string renders it as the text None
PyNone == <<"None">>

\* None where a list is expected, and a list
NoneList == [some |-> FALSE, items |-> <<>>]
List(items) == [some |-> TRUE, items |-> items]

\* Literal.value: None, a str, an int or a bool
NoValue == [t |-> "none"]
StrValue(chars) == [t |-> "str", s |-> chars]
IntValue(n) == [t |-> "int", n |-> n]
BoolValue(b) == [t |-> "bool", b |-> b]
\* a float with one decimal, whole.tenth
FloatValue(whole, tenth) == [t |-> "float", whole |-> whole, tenth |-> tenth]

FieldRef(name) == [node_type |-> "FIELD_REF", field_name |-> name]

Literal(value, data_type) ==
    [node_type |-> "LITERAL", value |-> value, data_type |-> data_type]

Binary(node_type, operator, left, right) ==
    [node_type |-> node_type, operator |-> operator, left |-> left, right |-> right]

Unary(operator, operand) ==
    [node_type |-> "UNARY", operator |-> operator, operand |-> operand]

FunctionCall(name, arguments) ==
    [node_type |-> "FUNCTION", function_name |-> name, arguments |-> arguments]

Conditional(condition, then_branch, else_branch) ==
    [node_type |-> "CONDITIONAL", condition |-> condition,
     then_branch |-> then_branch, else_branch |-> else_branch]

Case(case_expression, when_clauses, else_branch) ==
    [node_type |-> "CASE", case_expression |-> case_expression,
     when_clauses |-> when_clauses, else_branch |-> else_branch]

WhenClause(condition, result_node) == [condition |-> condition, result |-> result_node]

IsNone(node) == node.node_type = "None"

\* truthiness of an Optional[str] attribute: neither None nor ""
StrTruthy(chars) == chars # PyNone /\ chars # <<>>

-----------------------------------------------------------------------------
(* ASTToLookMLConverter.  A string is the sequence of the fragments it is  *)
(* concatenated from; a conversion either returns one or raises.           *)

Returns(parts) == [raised |-> FALSE, parts |-> parts]
Raises(message) == [raised |-> TRUE, parts |-> <<message>>]

\* the text of a sequence of fragments
RECURSIVE Join(_)
Join(parts) == IF parts = <<>> THEN "" ELSE Head(parts) \o Join(Tail(parts))

NoUpperMessage == "'NoneType' object has no attribute 'upper'"
NotIterableMessage == "'NoneType' object is not iterable"

Direct(name) == [template |-> FALSE, pre |-> name, post |-> ""]
Template(pre, post) == [template |-> TRUE, pre |-> pre, post |-> post]

\* _build_function_registry: Tableau name -> LookML name or one-slot template
function_registry ==
    [name \in {<<"S","U","M">>, <<"C","O","U","N","T">>, <<"A","V","G">>,
               <<"M","I","N">>, <<"M","A","X">>, <<"M","E","D","I","A","N">>,
               <<"U","P","P","E","R">>, <<"L","O","W","E","R">>, <<"L","E","N">>,
               <<"T","R","I","M">>, <<"L","E","F","T">>, <<"R","I","G","H","T">>,
               <<"M","I","D">>, <<"A","B","S">>, <<"R","O","U","N","D">>,
               <<"C","E","I","L","I","N","G">>, <<"F","L","O","O","R">>,
               <<"S","Q","R","T">>, <<"P","O","W","E","R">>, <<"Y","E","A","R">>,
               <<"M","O","N","T","H">>, <<"D","A","Y">>, <<"N","O","W">>,
               <<"T","O","D","A","Y">>} |->
        CASE name = <<"L","E","N">> -> Direct("LENGTH")
          [] name = <<"M","I","D">> -> Direct("SUBSTR")
          [] name = <<"C","E","I","L","I","N","G">> -> Direct("CEIL")
          [] name = <<"Y","E","A","R">> -> Template("EXTRACT(YEAR FROM ", ")")
          [] name = <<"M","O","N","T","H">> -> Template("EXTRACT(MONTH FROM ", ")")
          [] name = <<"D","A","Y">> -> Template("EXTRACT(DAY FROM ", ")")
          [] name = <<"N","O","W">> -> Direct("CURRENT_TIMESTAMP")
          [] name = <<"T","O","D","A","Y">> -> Direct("CURRENT_DATE")
          [] OTHER -> Direct(Join(name))]

\* str(value).replace("'", "\\'")
EscapeQuotes(chars) ==
    IF chars = <<>> THEN <<>>
    ELSE LET F[i \in 1..Len(chars)] ==
                LET ch == IF chars[i] = "'" THEN <<"\\", "'">> ELSE <<chars[i]>>
                IN  IF i = 1 THEN ch ELSE F[i - 1] \o ch
         IN  F[Len(chars)]

\* str(value)
PyStr(value) ==
    CASE value.t = "str" -> value.s
      [] value.t = "int" -> <<ToString(value.n)>>
      [] value.t = "bool" -> IF value.b THEN <<"True">> ELSE <<"False">>
      [] value.t = "float" -> <<ToString(value.whole) \o "." \o ToString(value.tenth)>>
      [] OTHER -> <<"None">>

\* truthiness of a Literal's value
ValueTruthy(value) ==
    CASE value.t = "str" -> value.s # <<>>
      [] value.t = "int" -> value.n # 0
      [] value.t = "bool" -> value.b
      [] value.t = "float" -> value.whole # 0 \/ value.tenth # 0
      [] OTHER -> FALSE

\* mutant: the arguments are joined last to first
RECURSIVE JoinArgs_reversed(_)
JoinArgs_reversed(outs) ==
    IF outs = <<>> THEN <<>>
    ELSE IF Len(outs) = 1 THEN outs[1]
    ELSE JoinArgs_reversed(Tail(outs)) \o <<", ">> \o outs[1]

\* ", ".join(converted_args)
RECURSIVE JoinArgs(_)
JoinArgs(outs) ==
    IF outs = <<>> THEN <<>>
    ELSE IF Len(outs) = 1 THEN outs[1]
    ELSE outs[1] \o <<", ">> \o JoinArgs(Tail(outs))

\* mutant: the field name is emitted as given
_convert_field_reference_verbatim(node, ctx) ==
    IF ~StrTruthy(node.field_name)
    THEN Returns(<<"/* Missing field name */">>)
    ELSE Returns(<<"${", ctx, "}.">> \o node.field_name)

_convert_field_reference(node, ctx) ==
    IF ~StrTruthy(node.field_name)
    THEN Returns(<<"/* Missing field name */">>)
    ELSE Returns(<<"${", ctx, "}.">> \o ReplaceSpace(Lower(node.field_name)))

\* mutant: every falsy value is taken for null
_convert_literal_falsy_null(node) ==
    IF ~ValueTruthy(node.value) THEN Returns(<<"NULL">>)
    ELSE IF node.data_type = "STRING"
         THEN Returns(<<"'">> \o EscapeQuotes(PyStr(node.value)) \o <<"'">>)
    ELSE IF node.data_type = "BOOLEAN"
         THEN Returns(IF ValueTruthy(node.value) THEN <<"TRUE">> ELSE <<"FALSE">>)
    ELSE IF node.data_type \in {"INTEGER", "REAL"}
         THEN Returns(PyStr(node.value))
    ELSE Returns(<<"'">> \o EscapeQuotes(PyStr(node.value)) \o <<"'">>)

_convert_literal(node) ==
    IF node.value.t = "none" THEN Returns(<<"NULL">>)
    ELSE IF node.data_type = "STRING"
         THEN Returns(<<"'">> \o EscapeQuotes(PyStr(node.value)) \o <<"'">>)
    ELSE IF node.data_type = "BOOLEAN"
         THEN Returns(IF ValueTruthy(node.value) THEN <<"TRUE">> ELSE <<"FALSE">>)
    ELSE IF node.data_type \in {"INTEGER", "REAL"}
         THEN Returns(PyStr(node.value))
    ELSE Returns(<<"'">> \o EscapeQuotes(PyStr(node.value)) \o <<"'">>)

RECURSIVE _convert_node(_, _)
RECURSIVE _convert_arithmetic(_, _)
RECURSIVE _convert_comparison(_, _)
RECURSIVE _convert_logical(_, _)
RECURSIVE _convert_unary(_, _)
RECURSIVE _convert_function(_, _)
RECURSIVE _convert_conditional(_, _)
RECURSIVE _convert_case(_, _)
RECURSIVE ConvertArguments(_, _)
RECURSIVE ConvertWhenClauses(_, _)

\* mutant: a missing operand raises instead of giving the placeholder
_convert_arithmetic_raising(node, ctx) ==
    IF IsNone(node.left) \/ IsNone(node.right)
    THEN Raises("Arithmetic node missing left or right operand")
    ELSE LET left_expr == _convert_node(node.left, ctx)
             right_expr == _convert_node(node.right, ctx)
         IN  IF left_expr.raised THEN left_expr
             ELSE IF right_expr.raised THEN right_expr
             ELSE IF node.operator = <<"^">>
                  THEN Returns(<<"POWER(">> \o left_expr.parts \o <<", ">>
                                  \o right_expr.parts \o <<")">>)
             ELSE IF node.operator = <<"%">>
                  THEN Returns(<<"MOD(">> \o left_expr.parts \o <<", ">>
                                  \o right_expr.parts \o <<")">>)
             ELSE Returns(<<"(">> \o left_expr.parts \o <<" ">> \o node.operator
                             \o <<" ">> \o right_expr.parts \o <<")">>)

_convert_arithmetic(node, ctx) ==
    IF IsNone(node.left) \/ IsNone(node.right)
    THEN Returns(<<"/* Missing operand */">>)
    ELSE LET left_expr == _convert_node(node.left, ctx)
             right_expr == _convert_node(node.right, ctx)
         IN  IF left_expr.raised THEN left_expr
             ELSE IF right_expr.raised THEN right_expr
             ELSE IF node.operator = <<"^">>
                  THEN Returns(<<"POWER(">> \o left_expr.parts \o <<", ">>
                                  \o right_expr.parts \o <<")">>)
             ELSE IF node.operator = <<"%">>
                  THEN Returns(<<"MOD(">> \o left_expr.parts \o <<", ">>
                                  \o right_expr.parts \o <<")">>)
             ELSE Returns(<<"(">> \o left_expr.parts \o <<" ">> \o node.operator
                             \o <<" ">> \o right_expr.parts \o <<")">>)

\* mutant: the operator is emitted as given, <> included
_convert_comparison_verbatim(node, ctx) ==
    IF IsNone(node.left) \/ IsNone(node.right)
    THEN Returns(<<"/* Missing operand */">>)
    ELSE LET left_expr == _convert_node(node.left, ctx)
             right_expr == _convert_node(node.right, ctx)
         IN  IF left_expr.raised THEN left_expr
             ELSE IF right_expr.raised THEN right_expr
             ELSE Returns(<<"(">> \o left_expr.parts \o <<" ">> \o node.operator
                             \o <<" ">> \o right_expr.parts \o <<")">>)

_convert_comparison(node, ctx) ==
    IF IsNone(node.left) \/ IsNone(node.right)
    THEN Returns(<<"/* Missing operand */">>)
    ELSE LET left_expr == _convert_node(node.left, ctx)
             right_expr == _convert_node(node.right, ctx)
             operator == IF node.operator \in {<<"<", ">">>, <<"!", "=">>}
                         THEN <<"!", "=">> ELSE node.operator
         IN  IF left_expr.raised THEN left_expr
             ELSE IF right_expr.raised THEN right_expr
             ELSE Returns(<<"(">> \o left_expr.parts \o <<" ">> \o operator
                             \o <<" ">> \o right_expr.parts \o <<")">>)

_convert_logical(node, ctx) ==
    IF IsNone(node.left) \/ IsNone(node.right)
    THEN Returns(<<"/* Missing operand */">>)
    ELSE LET left_expr == _convert_node(node.left, ctx)
             right_expr == _convert_node(node.right, ctx)
         IN  IF left_expr.raised THEN left_expr
             ELSE IF right_expr.raised THEN right_expr
             ELSE IF node.operator = PyNone THEN Raises(NoUpperMessage)
             ELSE Returns(<<"(">> \o left_expr.parts \o <<" ">> \o Upper(node.operator)
                             \o <<" ">> \o right_expr.parts \o <<")">>)

_convert_unary(node, ctx) ==
    IF IsNone(node.operand)
    THEN Returns(<<"/* Missing operand */">>)
    ELSE LET operand_expr == _convert_node(node.operand, ctx)
             operator == IF StrTruthy(node.operator) THEN Upper(node.operator) ELSE <<>>
         IN  IF operand_expr.raised THEN operand_expr
             ELSE IF operator = <<"N", "O", "T">>
                  THEN Returns(<<"NOT ">> \o operand_expr.parts)
             ELSE IF operator = <<"-">>
                  THEN Returns(<<"-">> \o operand_expr.parts)
             ELSE Returns(operator \o operand_expr.parts)

\* the for loop over node.arguments: the converted arguments in order, or
\* the first exception
ConvertArguments(items, ctx) ==
    IF items = <<>> THEN [raised |-> FALSE, outs |-> <<>>, error |-> Returns(<<>>)]
    ELSE LET arg_expr == _convert_node(Head(items), ctx)
         IN  IF arg_expr.raised
             THEN [raised |-> TRUE, outs |-> <<>>, error |-> arg_expr]
             ELSE LET rest == ConvertArguments(Tail(items), ctx)
                  IN  IF rest.raised THEN rest
                      ELSE [raised |-> FALSE, outs |-> <<arg_expr.parts>> \o rest.outs,
                            error |-> rest.error]

\* mutant: a template takes the first argument and drops the others
_convert_function_first_argument(node, ctx) ==
    IF ~StrTruthy(node.function_name)
    THEN Returns(<<"/* Missing function name */">>)
    ELSE IF ~node.arguments.some THEN Raises(NotIterableMessage)
    ELSE LET function_name == Upper(node.function_name)
             converted_args == ConvertArguments(node.arguments.items, ctx)
         IN  IF converted_args.raised THEN converted_args.error
             ELSE IF function_name \in DOMAIN function_registry
             THEN LET lookml_function == function_registry[function_name]
                  IN  IF lookml_function.template
                      THEN IF Len(converted_args.outs) >= 1
                           THEN Returns(<<lookml_function.pre>> \o converted_args.outs[1]
                                           \o <<lookml_function.post>>)
                           ELSE Returns(<<"/* ">> \o function_name
                                           \o <<": wrong argument count */">>)
                      ELSE Returns(<<lookml_function.pre, "(">>
                                      \o JoinArgs(converted_args.outs) \o <<")">>)
             ELSE Returns(function_name \o <<"(">> \o JoinArgs(converted_args.outs)
                             \o <<")">>)

_convert_function(node, ctx) ==
    IF ~StrTruthy(node.function_name)
    THEN Returns(<<"/* Missing function name */">>)
    ELSE IF ~node.arguments.some THEN Raises(NotIterableMessage)
    ELSE LET function_name == Upper(node.function_name)
             converted_args == ConvertArguments(node.arguments.items, ctx)
         IN  IF converted_args.raised THEN converted_args.error
             ELSE IF function_name \in DOMAIN function_registry
             THEN LET lookml_function == function_registry[function_name]
                  IN  IF lookml_function.template
                      THEN IF Len(converted_args.outs) = 1
                           THEN Returns(<<lookml_function.pre>> \o converted_args.outs[1]
                                           \o <<lookml_function.post>>)
                           ELSE Returns(<<"/* ">> \o function_name
                                           \o <<": wrong argument count */">>)
                      ELSE Returns(<<lookml_function.pre, "(">>
                                      \o JoinArgs(converted_args.outs) \o <<")">>)
             ELSE Returns(function_name \o <<"(">> \o JoinArgs(converted_args.outs)
                             \o <<")">>)

\* mutant: an absent else_branch leaves the else part empty
_convert_conditional_empty_else(node, ctx) ==
    IF IsNone(node.condition) \/ IsNone(node.then_branch)
    THEN Returns(<<"/* Incomplete conditional */">>)
    ELSE LET condition_expr == _convert_node(node.condition, ctx)
             then_expr == _convert_node(node.then_branch, ctx)
             else_expr == IF ~IsNone(node.else_branch)
                          THEN _convert_node(node.else_branch, ctx)
                          ELSE Returns(<<>>)
         IN  IF condition_expr.raised THEN condition_expr
             ELSE IF then_expr.raised THEN then_expr
             ELSE IF else_expr.raised THEN else_expr
             ELSE Returns(<<"CASE WHEN ">> \o condition_expr.parts \o <<" THEN ">>
                             \o then_expr.parts \o <<" ELSE ">> \o else_expr.parts
                             \o <<" END">>)

_convert_conditional(node, ctx) ==
    IF IsNone(node.condition) \/ IsNone(node.then_branch)
    THEN Returns(<<"/* Incomplete conditional */">>)
    ELSE LET condition_expr == _convert_node(node.condition, ctx)
             then_expr == _convert_node(node.then_branch, ctx)
             else_expr == IF ~IsNone(node.else_branch)
                          THEN _convert_node(node.else_branch, ctx)
                          ELSE Returns(<<"NULL">>)
         IN  IF condition_expr.raised THEN condition_expr
             ELSE IF then_expr.raised THEN then_expr
             ELSE IF else_expr.raised THEN else_expr
             ELSE Returns(<<"CASE WHEN ">> \o condition_expr.parts \o <<" THEN ">>
                             \o then_expr.parts \o <<" ELSE ">> \o else_expr.parts
                             \o <<" END">>)

\* the for loop over node.when_clauses: the WHEN parts in order, each led by
\* the joining space, or the first exception
ConvertWhenClauses(clauses, ctx) ==
    IF clauses = <<>> THEN Returns(<<>>)
    ELSE LET condition_expr == _convert_node(Head(clauses).condition, ctx)
             result_expr == _convert_node(Head(clauses).result, ctx)
             rest == ConvertWhenClauses(Tail(clauses), ctx)
         IN  IF condition_expr.raised THEN condition_expr
             ELSE IF result_expr.raised THEN result_expr
             ELSE IF rest.raised THEN rest
             ELSE Returns(<<" ", "WHEN ">> \o condition_expr.parts \o <<" THEN ">>
                             \o result_expr.parts \o rest.parts)

\* mutant: the guard against an empty clause list is left out
_convert_case_unguarded(node, ctx) ==
    LET case_expr == IF ~IsNone(node.case_expression)
                     THEN _convert_node(node.case_expression, ctx)
                     ELSE Returns(<<>>)
        whens == ConvertWhenClauses(node.when_clauses.items, ctx)
        else_expr == IF ~IsNone(node.else_branch)
                     THEN _convert_node(node.else_branch, ctx)
                     ELSE Returns(<<>>)
    IN  IF case_expr.raised THEN case_expr
        ELSE IF whens.raised THEN whens
        ELSE IF else_expr.raised THEN else_expr
        ELSE Returns(<<"CASE">>
                \o (IF ~IsNone(node.case_expression)
                    THEN <<" ">> \o case_expr.parts ELSE <<>>)
                \o whens.parts
                \o (IF ~IsNone(node.else_branch)
                    THEN <<" ", "ELSE ">> \o else_expr.parts ELSE <<>>)
                \o <<" ", "END">>)

\* mutant: the when-clauses are visited last to first
_convert_case_last_first(node, ctx) ==
    IF ~node.when_clauses.some \/ node.when_clauses.items = <<>>
    THEN Returns(<<"/* CASE statement with no WHEN clauses */">>)
    ELSE LET items == node.when_clauses.items
             case_expr == IF ~IsNone(node.case_expression)
                          THEN _convert_node(node.case_expression, ctx)
                          ELSE Returns(<<>>)
             whens == ConvertWhenClauses(
                         [i \in 1..Len(items) |-> items[Len(items) + 1 - i]], ctx)
             else_expr == IF ~IsNone(node.else_branch)
                          THEN _convert_node(node.else_branch, ctx)
                          ELSE Returns(<<>>)
         IN  IF case_expr.raised THEN case_expr
             ELSE IF whens.raised THEN whens
             ELSE IF else_expr.raised THEN else_expr
             ELSE Returns(<<"CASE">>
                     \o (IF ~IsNone(node.case_expression)
                         THEN <<" ">> \o case_expr.parts ELSE <<>>)
                     \o whens.parts
                     \o (IF ~IsNone(node.else_branch)
                         THEN <<" ", "ELSE ">> \o else_expr.parts ELSE <<>>)
                     \o <<" ", "END">>)

_convert_case(node, ctx) ==
    IF ~node.when_clauses.some \/ node.when_clauses.items = <<>>
    THEN Returns(<<"/* CASE statement with no WHEN clauses */">>)
    ELSE LET case_expr == IF ~IsNone(node.case_expression)
                          THEN _convert_node(node.case_expression, ctx)
                          ELSE Returns(<<>>)
             whens == ConvertWhenClauses(node.when_clauses.items, ctx)
             else_expr == IF ~IsNone(node.else_branch)
                          THEN _convert_node(node.else_branch, ctx)
                          ELSE Returns(<<>>)
         IN  IF case_expr.raised THEN case_expr
             ELSE IF whens.raised THEN whens
             ELSE IF else_expr.raised THEN else_expr
             ELSE Returns(<<"CASE">>
                     \o (IF ~IsNone(node.case_expression)
                         THEN <<" ">> \o case_expr.parts ELSE <<>>)
                     \o whens.parts
                     \o (IF ~IsNone(node.else_branch)
                         THEN <<" ", "ELSE ">> \o else_expr.parts ELSE <<>>)
                     \o <<" ", "END">>)

_convert_node(node, ctx) ==
    IF IsNone(node) THEN Returns(<<"NULL">>)
    ELSE IF node.node_type = "FIELD_REF" THEN _convert_field_reference(node, ctx)
    ELSE IF node.node_type = "LITERAL" THEN _convert_literal(node)
    ELSE IF node.node_type = "ARITHMETIC" THEN _convert_arithmetic(node, ctx)
    ELSE IF node.node_type = "COMPARISON" THEN _convert_comparison(node, ctx)
    ELSE IF node.node_type = "LOGICAL" THEN _convert_logical(node, ctx)
    ELSE IF node.node_type = "FUNCTION" THEN _convert_function(node, ctx)
    ELSE IF node.node_type = "CONDITIONAL" THEN _convert_conditional(node, ctx)
    ELSE IF node.node_type = "CASE" THEN _convert_case(node, ctx)
    ELSE IF node.node_type = "UNARY" THEN _convert_unary(node, ctx)
    ELSE Returns(<<"/* Unsupported: ", node.node_type, " */">>)

\* mutant: no try/except around the dispatch
convert_to_lookml_uncaught(node, ctx) == _convert_node(node, ctx)

\* convert_to_lookml: what the caller gets, a returned string or an
\* exception
convert_to_lookml(node, ctx) ==
    LET converted == _convert_node(node, ctx)
    IN  IF converted.raised
        THEN Returns(<<"/* Conversion error: ">> \o converted.parts \o <<" */">>)
        ELSE converted

-----------------------------------------------------------------------------
(* Inputs *)

\* names that differ only by case, and a name with a space
PlainNames == {<<"a">>, <<"A">>, <<" ">>}

\* original names as the metadata scanner supplies them: plain or bracketed
OrigNames == PlainNames \cup {<<"[", "a", "]">>, <<"[", "A", "]">>}

CleanNames == {<<"a">>, <<"b">>}

NoCall == [op |-> "none", original_name |-> <<>>, clean_name |-> <<>>,
           is_calculated |-> FALSE]

-----------------------------------------------------------------------------
(* Registry actions *)

InitMapper ==
    /\ original_to_clean = <<>>
    /\ clean_to_original = EmptyFun
    /\ registered_fields = {}
    /\ calculated_fields = {}
    /\ calls = <<>>

register_field(original_name, clean_name, is_calculated) ==
    LET r == RegisterResult(original_to_clean, clean_to_original, registered_fields,
                            calculated_fields, original_name, clean_name, is_calculated)
    IN  /\ Len(calls) < MaxCalls
        /\ original_to_clean' = r.otc
        /\ clean_to_original' = r.cto
        /\ registered_fields' = r.reg
        /\ calculated_fields' = r.calc
        /\ calls' = Append(calls, [op |-> "register", original_name |-> original_name,
                                   clean_name |-> clean_name,
                                   is_calculated |-> is_calculated])
        /\ UNCHANGED <<convVars, nameVars, poolVars>>

clear ==
    /\ Len(calls) < MaxCalls
    /\ original_to_clean' = <<>>
    /\ clean_to_original' = EmptyFun
    /\ registered_fields' = {}
    /\ calculated_fields' = {}
    /\ calls' = Append(calls, [NoCall EXCEPT !.op = "clear"])
    /\ UNCHANGED <<convVars, nameVars, poolVars>>

Register ==
    \E o \in OrigNames, c \in CleanNames, k \in BOOLEAN : register_field(o, c, k)

InitIdleName ==
    /\ caption = <<>>
    /\ derived = <<>>

\* the worker threads of the batch driver, and a thread that has no call yet
Threads == {"t1", "t2"}

IdleThread ==
    [op |-> "none", arg |-> <<>>, at |-> "idle", k |-> 0,
     clean_name |-> NoneVal, ret |-> NoneVal]

InitIdlePool == threads = [t \in Threads |-> IdleThread]

InitIdleConv ==
    /\ ast_node = NoneNode
    /\ table_context = ""
    /\ result = Returns(<<>>)
    /\ pc = "idle"

Init == InitMapper /\ InitIdleConv /\ InitIdleName /\ InitIdlePool

Next == Register \/ clear

Spec == Init /\ [][Next]_vars

\* the registry as the metadata scanner builds it for one workbook:
\* registrations only
NextBuild == Register

SpecBuild == Init /\ [][NextBuild]_vars

-----------------------------------------------------------------------------
(* Compiler inputs: trees the external parser can hand over, well-formed   *)
(* or not                                                                  *)

Field == FieldRef(<<"A", " ", "b">>)
Two == Literal(IntValue(2), "INTEGER")
Quoted == Literal(StrValue(<<"x", "'">>), "STRING")

YEAR == <<"Y", "E", "A", "R">>
len == <<"l", "e", "n">>
foo == <<"f", "o", "o">>

\* nodes with no defect
SoundKernels ==
    {Field, Two, Quoted, NoneNode,
     FunctionCall(<<"n", "o", "w">>, List(<<>>)),
     FunctionCall(len, List(<<Field>>)),
     Binary("ARITHMETIC", <<"%">>, Field, Two),
     Unary(PyNone, Two)}

\* nodes the per-node guards answer with a placeholder
GuardedKernels ==
    {FieldRef(<<>>), FieldRef(PyNone),
     Binary("ARITHMETIC", <<"+">>, NoneNode, Field),
     Binary("COMPARISON", <<"=">>, Field, NoneNode),
     Binary("LOGICAL", PyNone, NoneNode, Field),
     Unary(<<"-">>, NoneNode),
     Conditional(NoneNode, Field, NoneNode),
     Conditional(Field, NoneNode, Two),
     Case(NoneNode, List(<<>>), NoneNode),
     Case(Field, NoneList, Two),
     FunctionCall(YEAR, List(<<>>)),
     FunctionCall(YEAR, List(<<Field, Two>>)),
     FunctionCall(<<>>, List(<<Field>>))}

\* nodes on which the dispatch throws
ThrowingKernels ==
    {Binary("LOGICAL", PyNone, Field, Two),
     FunctionCall(len, NoneList)}

Kernels == SoundKernels \cup GuardedKernels \cup ThrowingKernels

\* the enclosing nodes around a sub-tree h
Wrap(h) ==
    {Binary("ARITHMETIC", <<"+">>, h, Field),
     Binary("ARITHMETIC", <<"^">>, Two, h),
     Binary("COMPARISON", <<"<", ">">>, Field, h),
     Binary("LOGICAL", <<"a", "n", "d">>, h, Field),
     Binary("LOGICAL", <<"o", "r">>, FunctionCall(len, NoneList), h),
     Unary(<<"n", "o", "t">>, h),
     FunctionCall(foo, List(<<Field, h>>)),
     FunctionCall(YEAR, List(<<h>>)),
     Conditional(Field, h, Two),
     Conditional(h, Two, NoneNode),
     Case(h, List(<<WhenClause(Field, Two), WhenClause(Two, h)>>), NoneNode)}

RECURSIVE TreesOfDepth(_)
TreesOfDepth(d) ==
    IF d = 0 THEN Kernels
    ELSE LET inner == TreesOfDepth(d - 1)
         IN  inner \cup UNION {Wrap(h) : h \in inner \ {NoneNode}}

Contexts == {"TABLE", "orders"}

-----------------------------------------------------------------------------
(* Compiler actions *)

InitConv ==
    /\ InitMapper
    /\ InitIdleName
    /\ InitIdlePool
    /\ ast_node \in TreesOfDepth(MaxDepth)
    /\ table_context \in Contexts
    /\ result = Returns(<<>>)
    /\ pc = "ready"

\* one call of convert_to_lookml by the batch driver
Convert ==
    /\ pc = "ready"
    /\ result' = convert_to_lookml(ast_node, table_context)
    /\ pc' = "done"
    /\ UNCHANGED <<ast_node, table_context, mapperVars, nameVars, poolVars>>

NextConv == Convert

SpecConv == InitConv /\ [][NextConv]_vars

-----------------------------------------------------------------------------
(* Leaf nodes: field references and literals of every value and data type  *)

RECURSIVE TextsUpTo(_, _)
TextsUpTo(chars, n) ==
    IF n = 0 THEN {<<>>}
    ELSE LET shorter == TextsUpTo(chars, n - 1)
         IN  shorter \cup {Append(t, ch) : t \in shorter, ch \in chars}

FieldNameChars == {"M", " ", "t", "%"}
ValueChars == {"x", "'", "\\"}

\* the declared data types, one undeclared one, and none
DataTypes == {"STRING", "INTEGER", "REAL", "BOOLEAN", "DATE", "None"}

Values ==
    {NoValue, BoolValue(TRUE), BoolValue(FALSE),
     IntValue(0), IntValue(2), IntValue(-1),
     FloatValue(0, 0), FloatValue(2, 5)}
    \cup {StrValue(t) : t \in TextsUpTo(ValueChars, MaxText)}

Leaves ==
    {FieldRef(n) : n \in TextsUpTo(FieldNameChars, MaxText)}
    \cup {FieldRef(<<"M", "o", "v", "i", "e", " ", "T", "i", "t", "l", "e">>)}
    \cup {Literal(v, dt) : v \in Values, dt \in DataTypes}

InitLeaf ==
    /\ InitMapper
    /\ InitIdleName
    /\ InitIdlePool
    /\ ast_node \in Leaves
    /\ table_context \in Contexts
    /\ result = Returns(<<>>)
    /\ pc = "ready"

SpecLeaf == InitLeaf /\ [][NextConv]_vars

-----------------------------------------------------------------------------
(* Operator and function nodes over a few operands                         *)

Operands ==
    {Field, Two, Quoted, FieldRef(<<>>), Binary("ARITHMETIC", <<"+">>, Field, Two)}

ArithmeticOperators == {<<"+">>, <<"-">>, <<"*">>, <<"/">>, <<"^">>, <<"%">>}
ComparisonOperators ==
    {<<"=">>, <<"!", "=">>, <<"<", ">">>, <<"<">>, <<">">>, <<"<", "=">>, <<">", "=">>}
LogicalOperators == {<<"a", "n", "d">>, <<"A", "N", "D">>, <<"O", "r">>}
UnaryOperators ==
    {<<"n", "o", "t">>, <<"N", "O", "T">>, <<"N", "o", "t">>, <<"-">>, <<"+">>,
     <<"~">>, <<"a", "b", "s", " ">>, <<>>, PyNone}
FunctionNames ==
    {len, <<"L", "E", "N">>, <<"M", "i", "d">>, <<"C", "E", "I", "L", "I", "N", "G">>,
     <<"s", "u", "m">>, <<"M", "E", "D", "I", "A", "N">>, foo, <<"F", "o", "o">>,
     YEAR, <<"m", "o", "n", "t", "h">>, <<"D", "a", "y">>, <<"n", "o", "w">>,
     <<"T", "O", "D", "A", "Y">>}

RECURSIVE ArgumentLists(_)
ArgumentLists(n) ==
    IF n = 0 THEN {<<>>}
    ELSE LET shorter == ArgumentLists(n - 1)
         IN  shorter \cup {Append(a, x) : a \in shorter, x \in Operands}

OperatorNodes ==
    {Binary("ARITHMETIC", op, l, r) : op \in ArithmeticOperators, l \in Operands, r \in Operands}
    \cup {Binary("COMPARISON", op, l, r) : op \in ComparisonOperators, l \in Operands, r \in Operands}
    \cup {Binary("LOGICAL", op, l, r) : op \in LogicalOperators, l \in Operands, r \in Operands}
    \cup {Unary(op, x) : op \in UnaryOperators, x \in Operands}

\* the branches of a Conditional or Case: a reference, two literals, or absent
Branches == {Field, Two, Quoted}
OptionalBranches == Branches \cup {NoneNode}

RECURSIVE WhenClauseLists(_)
WhenClauseLists(n) ==
    IF n = 0 THEN {<<>>}
    ELSE LET shorter == WhenClauseLists(n - 1)
         IN  shorter \cup {Append(w, WhenClause(c, r)) :
                              w \in shorter, c \in Branches, r \in Branches}

BranchNodes ==
    {Conditional(c, t, e) :
        c \in OptionalBranches, t \in OptionalBranches, e \in OptionalBranches}
    \cup {Case(ce, List(w), e) :
            ce \in {NoneNode, Field}, w \in WhenClauseLists(MaxArgs),
            e \in {NoneNode, Two}}

InitNode ==
    /\ InitMapper
    /\ InitIdleName
    /\ InitIdlePool
    /\ ast_node \in OperatorNodes
                     \cup {FunctionCall(f, List(a)) :
                             f \in FunctionNames, a \in ArgumentLists(MaxArgs)}
                     \cup BranchNodes
    /\ table_context \in Contexts
    /\ result = Returns(<<>>)
    /\ pc = "ready"

SpecNode == InitNode /\ [][NextConv]_vars

-----------------------------------------------------------------------------
(* One migration run: the scanner registers a field, then a formula that   *)
(* refers to a field is compiled                                           *)

InitRun ==
    /\ InitMapper
    /\ InitIdleName
    /\ InitIdlePool
    /\ ast_node \in {FieldRef(o) : o \in OrigNames}
    /\ table_context \in Contexts
    /\ result = Returns(<<>>)
    /\ pc = "ready"

\* the registrations all precede the compilation
register_before ==
    /\ pc = "ready"
    /\ calls = <<>>
    /\ Register

NextRun == register_before \/ Convert

SpecRun == InitRun /\ [][NextRun]_vars

-----------------------------------------------------------------------------
(* Clean-name derivation: calls of create_clean_name_from_caption on one   *)
(* caption, before and after the registry changes                          *)

RECURSIVE CaptionsUpTo(_)
CaptionsUpTo(n) ==
    IF n = 0 THEN {<<>>}
    ELSE LET shorter == CaptionsUpTo(n - 1)
         IN  shorter \cup {Append(c, ch) : c \in shorter, ch \in CaptionChars}

InitName == InitMapper /\ InitIdleConv /\ InitIdleName /\ InitIdlePool

\* the first call, on any caption
derive_first ==
    /\ derived = <<>>
    /\ \E c \in CaptionsUpTo(MaxCaption) :
          /\ caption' = c
          /\ derived' = <<create_clean_name_from_caption(c)>>
    /\ UNCHANGED <<mapperVars, convVars, poolVars>>

\* the same caption once more
derive_again ==
    /\ Len(derived) = 1
    /\ derived' = Append(derived, create_clean_name_from_caption(caption))
    /\ UNCHANGED <<mapperVars, convVars, caption, poolVars>>

\* the scanner registers one field under the caption, or under a fixed name
register_caption ==
    /\ calls = <<>>
    /\ \E o \in {caption, <<"A">>}, c \in CleanNames, k \in BOOLEAN :
          register_field(o, c, k)

clear_once ==
    /\ Len(calls) < 2
    /\ clear

NextName == derive_first \/ derive_again \/ register_caption \/ clear_once

SpecName == InitName /\ [][NextName]_vars

-----------------------------------------------------------------------------
(* Concurrent readers: the driver registers the fields, then its worker    *)
(* threads call resolve_field_reference, is_calculated_field and           *)
(* convert_to_lookml on the shared objects. A thread takes one step per    *)
(* read of a shared collection; its argument, its position and the locals  *)
(* of its call are its own.                                                *)

ResolveArgs == {<<"a">>, <<"A">>, <<"[", "A", "]">>, <<"a", "]">>, <<"B">>}
FlagArgs == {<<"A">>, <<"b">>}
CompileArgs == {Field, FunctionCall(<<"n", "o", "w">>, List(<<>>))}

Tasks ==
    {[op |-> "resolve_field_reference", arg |-> x] : x \in ResolveArgs}
    \cup {[op |-> "is_calculated_field", arg |-> x] : x \in FlagArgs}
    \cup {[op |-> "convert_to_lookml", arg |-> x] : x \in CompileArgs}

\* entry of a call: the thread stands before the first statement
Started(task) ==
    [IdleThread EXCEPT !.op = task.op, !.arg = task.arg,
        !.at = IF task.op = "resolve_field_reference" THEN "exact"
               ELSE IF task.op = "is_calculated_field" THEN "flagged"
               ELSE "dispatch"]

\* one statement of get_clean_name, run by a thread on its own locals
get_clean_name_step(th, otc) ==
    LET original_name == th.arg
        clean_original == Strip(original_name)
        bracketed_original == Bracketed(original_name)
        returns(v) == [th EXCEPT !.clean_name = v, !.at = "returned"]
    IN  IF th.at = "exact"
        THEN IF DictHas(otc, original_name)
             THEN returns(Some(DictGet(otc, original_name)))
             ELSE [th EXCEPT !.at = "stripped"]
        ELSE IF th.at = "stripped"
        THEN IF DictHas(otc, clean_original)
             THEN returns(Some(DictGet(otc, clean_original)))
             ELSE [th EXCEPT !.at = "bracketed"]
        ELSE IF th.at = "bracketed"
        THEN IF DictHas(otc, bracketed_original)
             THEN returns(Some(DictGet(otc, bracketed_original)))
             ELSE [th EXCEPT !.at = "scan", !.k = 1]
        ELSE \* one iteration of the loop over the items
             IF th.k > Len(otc) THEN returns(NoneVal)
             ELSE IF Lower(otc[th.k].k) \in {Lower(original_name), Lower(clean_original),
                                             Lower(bracketed_original)}
             THEN returns(Some(otc[th.k].v))
             ELSE [th EXCEPT !.k = th.k + 1]

\* one statement of the thread's call
thread_step(th, otc, calc) ==
    LET return(v) == [th EXCEPT !.ret = Some(v), !.at = "done"]
    IN  IF th.at = "dispatch"
        THEN return(convert_to_lookml(th.arg, "TABLE"))
        ELSE IF th.at = "flagged"
        THEN IF th.arg \in calc THEN return(TRUE) ELSE [th EXCEPT !.at = "exact"]
        ELSE IF th.at \in {"exact", "stripped", "bracketed", "scan"}
        THEN get_clean_name_step(th, otc)
        ELSE IF th.at = "returned"
        THEN IF th.op = "is_calculated_field"
             THEN return(Truthy(th.clean_name) /\ th.clean_name.val \in calc)
             ELSE IF Truthy(th.clean_name) THEN return(th.clean_name.val)
             ELSE [th EXCEPT !.at = "direct"]
        ELSE \* "direct": the second lookup of resolve_field_reference
             IF DictHas(otc, th.arg) THEN return(DictGet(otc, th.arg))
             ELSE return(th.arg)

\* mutant: the loop cursor is one attribute of the shared object
run_thread_shared_cursor(ths, t, otc, calc) ==
    LET stepped == thread_step(ths[t], otc, calc)
    IN  [u \in Threads |->
            IF u = t THEN stepped
            ELSE IF stepped.at = "scan" /\ ths[u].at = "scan"
                 THEN [ths[u] EXCEPT !.k = stepped.k]
                 ELSE ths[u]]

\* the scheduler runs one statement of thread t; the other threads keep
\* their locals
run_thread(ths, t, otc, calc) ==
    [ths EXCEPT ![t] = thread_step(ths[t], otc, calc)]

InitPool == InitMapper /\ InitIdleConv /\ InitIdleName /\ InitIdlePool

\* the registration phase: before any thread has been handed a call
register_phase ==
    /\ \A t \in Threads : threads[t].at = "idle"
    /\ calls = <<>>
    /\ Register

begin_call(t) ==
    /\ threads[t].at = "idle"
    /\ \E task \in Tasks : threads' = [threads EXCEPT ![t] = Started(task)]
    /\ UNCHANGED <<mapperVars, convVars, nameVars>>

run_statement(t) ==
    /\ threads[t].at \notin {"idle", "done"}
    /\ threads' = run_thread(threads, t, original_to_clean, calculated_fields)
    /\ UNCHANGED <<mapperVars, convVars, nameVars>>

Calls == \E t \in Threads : begin_call(t)

RunThreads == \E t \in Threads : run_statement(t)

NextPool == register_phase \/ Calls \/ RunThreads

SpecPool == InitPool /\ [][NextPool]_vars

-----------------------------------------------------------------------------
(* The call history, read back *)

LastCall == IF calls = <<>> THEN NoCall ELSE calls[Len(calls)]

PrevCall == IF Len(calls) < 2 THEN NoCall ELSE calls[Len(calls) - 1]

\* index of the first call after the most recent clear
FirstLive ==
    LET clears == {i \in 1..Len(calls) : calls[i].op = "clear"}
    IN  IF clears = {} THEN 1
        ELSE 1 + CHOOSE i \in clears : \A j \in clears : j <= i

\* the register_field calls the registry still holds
LiveCalls == {i \in FirstLive..Len(calls) : calls[i].op = "register"}

RegisteredOriginals == {calls[i].original_name : i \in LiveCalls}

\* the most recent registration of original o
LatestOf(o) ==
    calls[CHOOSE i \in LiveCalls :
            /\ calls[i].original_name = o
            /\ \A j \in LiveCalls : calls[j].original_name = o => j <= i]

\* original, bracketed, lower-cased/underscored, bracketed lower-cased
FourSpellings(o) == {o, Bracketed(o), Cleaned(o), Cleaned(Bracketed(o))}

\* the references the claims look up
Queries ==
    OrigNames \cup CleanNames \cup {Bracketed(s) : s \in OrigNames}
        \cup {Append(s, "]") : s \in PlainNames} \cup {<<"_">>, <<"B">>}

-----------------------------------------------------------------------------
(* Positions in a tree *)

NodeAttrs == {"left", "right", "operand", "condition", "then_branch",
              "else_branch", "case_expression"}

\* the steps from a node down to its non-null children
Steps(node) ==
    {[attr |-> a, i |-> 0] : a \in {b \in NodeAttrs \cap DOMAIN node : ~IsNone(node[b])}}
    \cup (IF "arguments" \in DOMAIN node
          THEN {[attr |-> "arguments", i |-> i] :
                  i \in {j \in 1..Len(node.arguments.items) :
                           ~IsNone(node.arguments.items[j])}}
          ELSE {})
    \cup (IF "when_clauses" \in DOMAIN node
          THEN {[attr |-> "when_condition", i |-> i] :
                  i \in {j \in 1..Len(node.when_clauses.items) :
                           ~IsNone(node.when_clauses.items[j].condition)}}
               \cup {[attr |-> "when_result", i |-> i] :
                       i \in {j \in 1..Len(node.when_clauses.items) :
                                ~IsNone(node.when_clauses.items[j].result)}}
          ELSE {})

Child(node, step) ==
    IF step.i = 0 THEN node[step.attr]
    ELSE IF step.attr = "arguments" THEN node.arguments.items[step.i]
    ELSE IF step.attr = "when_condition" THEN node.when_clauses.items[step.i].condition
    ELSE node.when_clauses.items[step.i].result

SetChild(node, step, new) ==
    IF step.i = 0 THEN [node EXCEPT ![step.attr] = new]
    ELSE IF step.attr = "arguments"
         THEN [node EXCEPT !.arguments.items[step.i] = new]
    ELSE IF step.attr = "when_condition"
         THEN [node EXCEPT !.when_clauses.items[step.i].condition = new]
    ELSE [node EXCEPT !.when_clauses.items[step.i].result = new]

RECURSIVE Paths(_)
Paths(node) ==
    IF IsNone(node) THEN {}
    ELSE {<<>>} \cup UNION {{<<st>> \o p : p \in Paths(Child(node, st))} :
                               st \in Steps(node)}

RECURSIVE At(_, _)
At(node, path) == IF path = <<>> THEN node ELSE At(Child(node, Head(path)), Tail(path))

RECURSIVE ReplaceAt(_, _, _)
ReplaceAt(node, path, new) ==
    IF path = <<>> THEN new
    ELSE SetChild(node, Head(path), ReplaceAt(Child(node, Head(path)), Tail(path), new))

IsErrorMarker(r) == r.parts # <<>> /\ r.parts[1] = "/* Conversion error: "

-----------------------------------------------------------------------------
(* C1 *)

\* C1: convert_to_lookml never raises to its caller: for every input tree
\* it returns a string, and when the recursive dispatch throws inside
\* (for instance on a nested node whose operator or argument list is
\* absent) the returned string is
\* '/* Conversion error: <exception message> */'.
C1_NeverRaises ==
    pc = "done" =>
        LET inner == _convert_node(ast_node, table_context)
        IN  /\ ~result.raised
            /\ inner.raised =>
                 /\ inner.parts \in {<<NoUpperMessage>>, <<NotIterableMessage>>}
                 /\ Join(result.parts)
                      = "/* Conversion error: " \o inner.parts[1] \o " */"
            /\ ~inner.raised => result = inner

\* a nested node with an absent argument list made the dispatch throw
C1_Witness ==
    /\ pc = "done"
    /\ ast_node.node_type = "CONDITIONAL"
    /\ ast_node.then_branch.node_type = "ARITHMETIC"
    /\ ast_node.then_branch.left = FunctionCall(len, NoneList)
    /\ Join(result.parts) = "/* Conversion error: 'NoneType' object is not iterable */"

-----------------------------------------------------------------------------
(* C2 *)

MissingOperand(node) ==
    \/ /\ node.node_type \in {"ARITHMETIC", "COMPARISON", "LOGICAL"}
       /\ IsNone(node.left) \/ IsNone(node.right)
    \/ node.node_type = "UNARY" /\ IsNone(node.operand)

MissingFieldName(node) ==
    node.node_type = "FIELD_REF" /\ node.field_name \in {<<>>, PyNone}

IncompleteConditional(node) ==
    /\ node.node_type = "CONDITIONAL"
    /\ IsNone(node.condition) \/ IsNone(node.then_branch)

NoWhenClauses(node) ==
    node.node_type = "CASE" /\ node.when_clauses.items = <<>>

MissingPart(node) ==
    \/ MissingOperand(node)
    \/ MissingFieldName(node)
    \/ IncompleteConditional(node)
    \/ NoWhenClauses(node)

MissingPartPlaceholder(node) ==
    IF MissingOperand(node) THEN "/* Missing operand */"
    ELSE IF MissingFieldName(node) THEN "/* Missing field name */"
    ELSE IF IncompleteConditional(node) THEN "/* Incomplete conditional */"
    ELSE "/* CASE statement with no WHEN clauses */"

\* C2: a node missing a required part compiles to its diagnostic
\* placeholder and does not raise: '/* Missing operand */' for Arithmetic,
\* Comparison or Logical with a null left or right operand and for Unary
\* with a null operand, '/* Missing field name */' for FieldRef with an
\* empty or absent field_name, '/* Incomplete conditional */' for
\* Conditional lacking condition or then_branch,
\* '/* CASE statement with no WHEN clauses */' for Case with no
\* when-clause; this holds for the root and for every sub-node.
C2_Placeholders ==
    pc = "done" =>
        /\ MissingPart(ast_node) =>
             result = Returns(<<MissingPartPlaceholder(ast_node)>>)
        /\ \A p \in Paths(ast_node) :
             MissingPart(At(ast_node, p)) =>
                _convert_node(At(ast_node, p), table_context)
                    = Returns(<<MissingPartPlaceholder(At(ast_node, p))>>)

\* a Case with an absent clause list was compiled to its placeholder
C2_Witness ==
    /\ pc = "done"
    /\ ast_node.node_type = "CASE"
    /\ ~ast_node.when_clauses.some
    /\ ~IsNone(ast_node.case_expression)
    /\ Join(result.parts) = "/* CASE statement with no WHEN clauses */"

-----------------------------------------------------------------------------
(* C3 *)

\* the arguments of a call all compile without raising
ArgumentsCompile(node, ctx) ==
    /\ node.arguments.some
    /\ \A i \in 1..Len(node.arguments.items) :
         ~_convert_node(node.arguments.items[i], ctx).raised

MissingFunctionName(node) ==
    node.node_type = "FUNCTION" /\ node.function_name \in {<<>>, PyNone}

\* a call of a one-slot template with more or fewer than one argument
WrongArity(node, ctx) ==
    /\ node.node_type = "FUNCTION"
    /\ ~MissingFunctionName(node)
    /\ Upper(node.function_name) \in {YEAR, <<"M", "O", "N", "T", "H">>, <<"D", "A", "Y">>}
    /\ ArgumentsCompile(node, ctx)
    /\ Len(node.arguments.items) # 1

Malformed(node, ctx) ==
    MissingPart(node) \/ MissingFunctionName(node) \/ WrongArity(node, ctx)

Placeholder(node) ==
    IF MissingPart(node) THEN <<MissingPartPlaceholder(node)>>
    ELSE IF MissingFunctionName(node) THEN <<"/* Missing function name */">>
    ELSE <<"/* ">> \o Upper(node.function_name) \o <<": wrong argument count */">>

\* a well-formed node that occurs in no input tree, and its compilation
Probe == Literal(IntValue(7), "INTEGER")
ProbeText == "7"

\* parts with every occurrence of the probe's text replaced
RECURSIVE Substitute(_, _)
Substitute(parts, replacement) ==
    IF parts = <<>> THEN <<>>
    ELSE (IF Head(parts) = ProbeText THEN replacement ELSE <<Head(parts)>>)
            \o Substitute(Tail(parts), replacement)

\* C3: a malformed sub-node (missing required child, wrong arity, empty
\* clause list) at any depth is recovered locally: the output is the
\* compilation of the enclosing tree with a well-formed node in its place,
\* in which only that node's text is replaced by the placeholder; the
\* sibling branches are compiled as before and the output is an error
\* string only if the enclosing tree's already was.
C3_LocalRecovery ==
    pc = "done" =>
        \A p \in Paths(ast_node) :
            LET sub == At(ast_node, p)
                enclosing == convert_to_lookml(ReplaceAt(ast_node, p, Probe), table_context)
            IN  Malformed(sub, table_context) =>
                  /\ result = Returns(Substitute(enclosing.parts, Placeholder(sub)))
                  /\ IsErrorMarker(result) => IsErrorMarker(enclosing)

\* a Case with no clause nested two levels down was replaced by its
\* placeholder while the sibling field references compiled
C3_Witness ==
    /\ pc = "done"
    /\ ast_node = Conditional(Field,
                              Binary("ARITHMETIC", <<"+">>,
                                     Case(NoneNode, List(<<>>), NoneNode), Field),
                              Two)
    /\ table_context = "TABLE"
    /\ Join(result.parts)
         = "CASE WHEN ${TABLE}.a_b THEN "
             \o "(/* CASE statement with no WHEN clauses */ + ${TABLE}.a_b)"
             \o " ELSE 2 END"

-----------------------------------------------------------------------------
(* C4 *)

\* C4: after any sequence of register_field calls, every registered original
\* and its bracketed form resolve to the clean name of the original's most
\* recent registration.
C4_ResolveRegistered ==
    \A o \in RegisteredOriginals :
        /\ resolve_field_reference(o) = LatestOf(o).clean_name
        /\ resolve_field_reference(Bracketed(o)) = LatestOf(o).clean_name

-----------------------------------------------------------------------------
(* C5 *)

MatchingValues(o) ==
    LET forms == {Lower(o), Lower(Strip(o)), Lower(Bracketed(o))}
    IN  {item[2] : item \in {it \in DictItems(original_to_clean) : Lower(it[1]) \in forms}}

-----------------------------------------------------------------------------
(* C6 *)

\* the keys of original_to_clean, lower-cased
LoweredKeys == {Lower(key) : key \in DictKeys(original_to_clean)}

\* no key in lk is x, x without its brackets or x in brackets, with or
\* without regard to case (lk: the lower-cased keys)
NeverRegistered(lk, x) ==
    {Lower(x), Lower(Strip(x)), Lower(Bracketed(x))} \cap lk = {}

\* C6: a reference no matching step finds a mapping for resolves to itself,
\* unchanged, and resolving the result again gives the same result.
C6_PassThrough ==
    LET lk == LoweredKeys
    IN  \A x \in Queries :
            NeverRegistered(lk, x) =>
                LET resolved == resolve_field_reference(x)
                IN  /\ resolved = x
                    /\ resolve_field_reference(resolved) = resolved

\* a populated registry and a bracketed reference it has no mapping for
C6_Witness ==
    /\ original_to_clean # <<>>
    /\ \E x \in Queries :
        /\ NeverRegistered(LoweredKeys, x)
        /\ Strip(x) # x
        /\ resolve_field_reference(x) = x

-----------------------------------------------------------------------------
(* C7 *)

\* C7: right after register_field(original_name, clean_name), all four
\* spellings of the field resolve to that clean_name.  (Stated for a
\* registry that holds a single original.)
C7_AllFourSpellings ==
    (LastCall.op = "register" /\ Cardinality(RegisteredOriginals) = 1) =>
        \A s \in FourSpellings(LastCall.original_name) :
            resolve_field_reference(s) = LastCall.clean_name

MapsTo(s, c) ==
    /\ DictHas(original_to_clean, s)
    /\ DictGet(original_to_clean, s) = c
    /\ resolve_field_reference(s) = c

\* What the code does: right after register_field(original_name,
\* clean_name), the original and the bracketed original map and resolve to
\* clean_name, and so does each lower-cased/underscored form that differs
\* from clean_name (a form equal to clean_name is not stored by the call).
C7_SpellingsStored ==
    LastCall.op = "register" =>
        LET o == LastCall.original_name
            c == LastCall.clean_name
        IN  /\ MapsTo(o, c)
            /\ MapsTo(Bracketed(o), c)
            /\ \A s \in {Cleaned(o), Cleaned(Bracketed(o))} : s # c => MapsTo(s, c)

\* a second registration whose lower-cased form is stored over another
\* field's entry
C7_StoredOver ==
    /\ Len(calls) = 2
    /\ LastCall.op = "register"
    /\ PrevCall.op = "register"
    /\ Cleaned(LastCall.original_name) # LastCall.original_name
    /\ Cleaned(LastCall.original_name) = PrevCall.original_name
    /\ PrevCall.clean_name # LastCall.clean_name
    /\ MapsTo(Cleaned(LastCall.original_name), LastCall.clean_name)

-----------------------------------------------------------------------------
(* C8 *)

RegistryUnchanged ==
    /\ original_to_clean' = original_to_clean
    /\ clean_to_original' = clean_to_original
    /\ registered_fields' = registered_fields
    /\ calculated_fields' = calculated_fields

\* the step is a register_field call
RegisterStep == Len(calls') = Len(calls) + 1 /\ calls'[Len(calls')].op = "register"

-----------------------------------------------------------------------------
(* C9 *)

\* the latest call registers an original that an earlier call registered
\* under another clean name
Overwrote ==
    /\ LastCall.op = "register"
    /\ \E i \in 1..(Len(calls) - 1) :
        /\ calls[i].op = "register"
        /\ calls[i].original_name = LastCall.original_name
        /\ calls[i].clean_name # LastCall.clean_name

\* C9: after an original registered under c1 is registered under
\* c2, every spelling of the field resolves to c2.
C9_LastWriteWins ==
    Overwrote =>
        \A s \in FourSpellings(LastCall.original_name) :
            resolve_field_reference(s) = LastCall.clean_name

\* What the code does: after an original registered under c1 is registered
\* under c2, the original and the bracketed original resolve to c2, and so
\* does each lower-cased/underscored form that differs from c2.
C9_OverwriteStored ==
    Overwrote =>
        LET o == LastCall.original_name
            c2 == LastCall.clean_name
        IN  /\ resolve_field_reference(o) = c2
            /\ resolve_field_reference(Bracketed(o)) = c2
            /\ \A s \in {Cleaned(o), Cleaned(Bracketed(o))} :
                    s # c2 => resolve_field_reference(s) = c2

\* an overwrite after which the lower-cased form, equal to c2, still
\* resolves to c1
C9_StaleSpelling ==
    /\ Overwrote
    /\ PrevCall.op = "register"
    /\ PrevCall.original_name = LastCall.original_name
    /\ Cleaned(LastCall.original_name) = LastCall.clean_name
    /\ resolve_field_reference(LastCall.original_name) = LastCall.clean_name
    /\ resolve_field_reference(Cleaned(LastCall.original_name)) = PrevCall.clean_name

-----------------------------------------------------------------------------
(* C10 *)

-----------------------------------------------------------------------------
(* C11 *)

\* the transform as specified: lower-case; "%" becomes the word percent;
\* every maximal run of characters outside [a-z0-9] becomes one "_";
\* repeated underscores collapse; leading and trailing underscores go
ReferenceCleanName(cap) ==
    StripUnderscores(SubRuns(SubRuns(
        ReplacePercent(Lower(cap), <<"p", "e", "r", "c", "e", "n", "t">>),
        NotAlnum), IsUnderscore))

\* C11: create_clean_name_from_caption(caption) equals the reference
\* transform of the caption, for every caption ('50%off' gives
\* '50percentoff').
C11_MatchesReference ==
    \A i \in 1..Len(derived) : derived[i] = ReferenceCleanName(caption)

-----------------------------------------------------------------------------
(* C12 *)

\* a step that calls create_clean_name_from_caption
DeriveStep == Len(derived') = Len(derived) + 1

\* C12, on the states: every call returned a string, the calls on one
\* caption all returned the same string whatever the registry held at the
\* time, and the empty caption gave the empty string.
C12_SameOutput ==
    /\ \A i \in 1..Len(derived) :
          /\ derived[i] \in Seq(LowerSet \cup Digits \cup {"_"})
          /\ derived[i] = derived[1]
    /\ (derived # <<>> /\ caption = <<>>) => derived[1] = <<>>

\* C12: create_clean_name_from_caption is total and deterministic and
\* leaves the registry alone: a call returns a string, the same one as
\* every earlier call on that caption whatever the registry holds, the
\* empty caption gives the empty string, and the call changes nothing in
\* the registry.
C12_TotalDeterministic ==
    [][DeriveStep =>
         /\ UNCHANGED mapperVars
         /\ C12_SameOutput']_vars

\* the caption was derived, then registered under another clean name, then
\* derived again
C12_Witness ==
    /\ Len(derived) = 2
    /\ Len(calls) = 1
    /\ calls[1].op = "register" /\ calls[1].original_name = caption
    /\ calls[1].clean_name # derived[1]
    /\ caption # <<>>
    /\ derived[2] = derived[1]

-----------------------------------------------------------------------------
(* C13 *)

\* C13: a FieldRef with a non-empty field_name compiles, under every
\* table_context, to '${' + table_context + '}.' + n, n being field_name
\* lower-cased with every space replaced by an underscore.
C13_FieldReference ==
    (pc = "done" /\ ast_node.node_type = "FIELD_REF" /\ ast_node.field_name # <<>>) =>
        LET n == ReplaceSpace(Lower(ast_node.field_name))
        IN  /\ Join(result.parts) = "${" \o table_context \o "}." \o Join(n)
            /\ Len(n) = Len(ast_node.field_name)
            /\ \A i \in 1..Len(n) :
                  /\ n[i] # " "
                  /\ n[i] \notin UpperSet
                  /\ ast_node.field_name[i] = " " => n[i] = "_"

\* FieldRef('Movie Title') compiled under 'TABLE'
C13_Witness ==
    /\ pc = "done"
    /\ ast_node = FieldRef(<<"M", "o", "v", "i", "e", " ", "T", "i", "t", "l", "e">>)
    /\ table_context = "TABLE"
    /\ Join(result.parts) = "${TABLE}.movie_title"

-----------------------------------------------------------------------------
(* C14 *)

\* C14: the compiler resolves field identities through the registry: for a
\* field registered as (original, clean), the compilation of
\* FieldRef(original), or of FieldRef of another registered alias, refers
\* to resolve_field_reference of that name, the canonical clean name.
C14_UsesResolver ==
    (pc = "done" /\ DictHas(original_to_clean, ast_node.field_name)) =>
        result = Returns(<<"${", table_context, "}.">>
                            \o resolve_field_reference(ast_node.field_name))

-----------------------------------------------------------------------------
(* C15 *)

\* reading text from position i on, a backslash escaping the character
\* after it: some single quote is met outside an escape, or the text ends
\* inside one
RECURSIVE RawQuoteFrom(_, _)
RawQuoteFrom(text, i) ==
    IF i > Len(text) THEN FALSE
    ELSE IF text[i] = "\\" THEN (i = Len(text) \/ RawQuoteFrom(text, i + 2))
    ELSE IF text[i] = "'" THEN TRUE
    ELSE RawQuoteFrom(text, i + 1)

\* every single quote of text has a backslash right before it
QuotesPreceded(text) ==
    \A i \in 1..Len(text) : text[i] = "'" => (i > 1 /\ text[i - 1] = "\\")

\* C15: a STRING literal compiles to its value inside one pair of single
\* quotes, every single quote of the value preceded by a backslash, so
\* that no quote of the value is left unescaped and the content cannot end
\* the literal early.
C15_NoRawQuote ==
    (/\ pc = "done"
     /\ ast_node.node_type = "LITERAL"
     /\ ast_node.data_type = "STRING"
     /\ ast_node.value.t = "str") =>
        /\ Len(result.parts) >= 2
        /\ Head(result.parts) = "'"
        /\ result.parts[Len(result.parts)] = "'"
        /\ LET body == SubSeq(result.parts, 2, Len(result.parts) - 1)
           IN  /\ QuotesPreceded(body)
               /\ ~RawQuoteFrom(body, 1)

-----------------------------------------------------------------------------
(* C16 *)

\* the literal with the same value, declared STRING
AsString(node) == [node EXCEPT !.data_type = "STRING"]

\* C16: a literal compiles by its data type: a null value to NULL at
\* every data type; BOOLEAN to TRUE or FALSE according to the value;
\* INTEGER and REAL to the unquoted string form of the value, 0 and false
\* not being taken for null; every other data type as STRING does.
C16_LiteralByType ==
    (pc = "done" /\ ast_node.node_type = "LITERAL") =>
        LET value == ast_node.value
            data_type == ast_node.data_type
            text == Join(result.parts)
        IN  /\ ~result.raised
            /\ value.t = "none" => text = "NULL"
            /\ value.t \in {"int", "float", "bool"} => text # "NULL"
            /\ (data_type = "BOOLEAN" /\ value.t = "bool") =>
                    text = (IF value.b THEN "TRUE" ELSE "FALSE")
            /\ (data_type \in {"INTEGER", "REAL"} /\ value.t = "int") =>
                    text = ToString(value.n)
            /\ (data_type \in {"INTEGER", "REAL"} /\ value.t = "float") =>
                    text = ToString(value.whole) \o "." \o ToString(value.tenth)
            /\ (data_type \in {"INTEGER", "REAL"} /\ value.t = "str") =>
                    text = Join(value.s)
            /\ data_type \notin {"STRING", "BOOLEAN", "INTEGER", "REAL"} =>
                    result = convert_to_lookml(AsString(ast_node), table_context)
            /\ (data_type \notin {"BOOLEAN", "INTEGER", "REAL"} /\ value.t = "str") =>
                    /\ Head(result.parts) = "'"
                    /\ result.parts[Len(result.parts)] = "'"

\* the INTEGER literal 0 compiled to 0, not to NULL
C16_Witness ==
    /\ pc = "done"
    /\ ast_node = Literal(IntValue(0), "INTEGER")
    /\ Join(result.parts) = "0"

-----------------------------------------------------------------------------
(* C17 *)

\* the compiled text of a child
Compiled(node) == Join(convert_to_lookml(node, table_context).parts)

\* C17: a binary operator node with both operands compiles from its
\* compiled children L and R: Arithmetic ^ to POWER(L, R), Arithmetic % to
\* MOD(L, R), every other Arithmetic operator to (L OP R); Comparison to
\* (L OP R) with <> and != both written !=; Logical to (L OP R) with the
\* operator upper-cased.
C17_BinaryOperators ==
    (/\ pc = "done"
     /\ ast_node.node_type \in {"ARITHMETIC", "COMPARISON", "LOGICAL"}
     /\ ~IsNone(ast_node.left) /\ ~IsNone(ast_node.right)
     /\ ast_node.operator # PyNone) =>
        LET L == Compiled(ast_node.left)
            R == Compiled(ast_node.right)
            op == ast_node.operator
            text == Join(result.parts)
        IN  IF ast_node.node_type = "ARITHMETIC"
            THEN IF op = <<"^">> THEN text = "POWER(" \o L \o ", " \o R \o ")"
                 ELSE IF op = <<"%">> THEN text = "MOD(" \o L \o ", " \o R \o ")"
                 ELSE text = "(" \o L \o " " \o Join(op) \o " " \o R \o ")"
            ELSE IF ast_node.node_type = "COMPARISON"
            THEN IF op \in {<<"<", ">">>, <<"!", "=">>}
                 THEN text = "(" \o L \o " != " \o R \o ")"
                 ELSE text = "(" \o L \o " " \o Join(op) \o " " \o R \o ")"
            ELSE /\ text = "(" \o L \o " " \o Join(Upper(op)) \o " " \o R \o ")"
                 /\ \A i \in 1..Len(op) : Upper(op)[i] \notin LowerSet

\* Arithmetic('^', 2, 2) compiled to POWER(2, 2)
C17_Witness ==
    /\ pc = "done"
    /\ ast_node = Binary("ARITHMETIC", <<"^">>, Two, Two)
    /\ Join(result.parts) = "POWER(2, 2)"

-----------------------------------------------------------------------------
(* C18 *)

\* C18: a Unary node with an operand compiles to 'NOT ' + operand for
\* NOT, to '-' + operand for '-', and for every other operator to the
\* operator text exactly as the node gives it followed at once by the
\* compiled operand.
C18_UnaryVerbatim ==
    (pc = "done" /\ ast_node.node_type = "UNARY" /\ ~IsNone(ast_node.operand)) =>
        LET X == Compiled(ast_node.operand)
            op == ast_node.operator
            text == Join(result.parts)
        IN  IF op \in {<<>>, PyNone} THEN text = X
            ELSE IF Upper(op) = <<"N", "O", "T">> THEN text = "NOT " \o X
            ELSE IF op = <<"-">> THEN text = "-" \o X
            ELSE text = Join(op) \o X

-----------------------------------------------------------------------------
(* C19 *)

\* the renamed functions and the aggregates among the function names
Renamed ==
    [name \in {<<"L", "E", "N">>, <<"M", "I", "D">>, <<"C", "E", "I", "L", "I", "N", "G">>,
               <<"S", "U", "M">>, <<"M", "E", "D", "I", "A", "N">>} |->
        CASE name = <<"L", "E", "N">> -> "LENGTH"
          [] name = <<"M", "I", "D">> -> "SUBSTR"
          [] name = <<"C", "E", "I", "L", "I", "N", "G">> -> "CEIL"
          [] name = <<"S", "U", "M">> -> "SUM"
          [] OTHER -> "MEDIAN"]

\* the compiled arguments from position i on, joined by ', '
RECURSIVE ArgsText(_, _)
ArgsText(items, i) ==
    IF i > Len(items) THEN ""
    ELSE Compiled(items[i])
            \o (IF i < Len(items) THEN ", " ELSE "")
            \o ArgsText(items, i + 1)

\* C19: a FunctionCall compiles its arguments left to right and joins
\* them by ', ' in input order; the name is upper-cased before the lookup;
\* a name the table renames gives NEWNAME(args) (LEN to LENGTH, MID to
\* SUBSTR, CEILING to CEIL, aggregates unchanged); a name not in the table
\* gives the upper-cased name with the compiled arguments, and no error.
C19_FunctionCall ==
    (pc = "done" /\ ast_node.node_type = "FUNCTION") =>
        LET name == Upper(ast_node.function_name)
            args == ArgsText(ast_node.arguments.items, 1)
            text == Join(result.parts)
        IN  /\ name \in DOMAIN Renamed => text = Renamed[name] \o "(" \o args \o ")"
            /\ name = <<"F", "O", "O">> =>
                  /\ text = "FOO(" \o args \o ")"
                  /\ ~IsErrorMarker(result)

\* mid, in mixed case, renamed, with its two arguments in input order
C19_Witness ==
    /\ pc = "done"
    /\ ast_node = FunctionCall(<<"M", "i", "d">>, List(<<Quoted, Two>>))
    /\ Join(result.parts) = "SUBSTR('x\\'', 2)"

-----------------------------------------------------------------------------
(* C20 *)

DateParts == {YEAR, <<"M", "O", "N", "T", "H">>, <<"D", "A", "Y">>}

\* C20: YEAR, MONTH and DAY take exactly one argument: with one they give
\* EXTRACT(<PART> FROM <arg>); with none or with two or more they give a
\* placeholder that names the function and the arity mismatch; no call
\* raises and no argument is dropped without notice.
C20_DatePartArity ==
    (/\ pc = "done"
     /\ ast_node.node_type = "FUNCTION"
     /\ Upper(ast_node.function_name) \in DateParts) =>
        LET name == Join(Upper(ast_node.function_name))
            items == ast_node.arguments.items
            text == Join(result.parts)
        IN  /\ ~result.raised
            /\ ~IsErrorMarker(result)
            /\ IF Len(items) = 1
               THEN text = "EXTRACT(" \o name \o " FROM " \o Compiled(items[1]) \o ")"
               ELSE text = "/* " \o name \o ": wrong argument count */"

\* month with two arguments answered by the placeholder
C20_Witness ==
    /\ pc = "done"
    /\ ast_node = FunctionCall(<<"m", "o", "n", "t", "h">>, List(<<Field, Two>>))
    /\ Join(result.parts) = "/* MONTH: wrong argument count */"

\* ---------------------------------------------------------------------------
\* C21: NOW and TODAY called with no arguments compile to the SQL keywords
\* CURRENT_TIMESTAMP and CURRENT_DATE respectively.
\* The code looks the name up in the registry and, the entry holding no '{}',
\* formats it as f"{lookml_function}({args_str})": an empty pair of
\* parentheses follows the keyword.
NowToday ==
    (<<"N", "O", "W">> :> "CURRENT_TIMESTAMP")
    @@ (<<"T", "O", "D", "A", "Y">> :> "CURRENT_DATE")

C21_DateKeywords ==
    (/\ pc = "done"
     /\ ast_node.node_type = "FUNCTION"
     /\ Upper(ast_node.function_name) \in DOMAIN NowToday
     /\ ast_node.arguments.items = <<>>)
    => (/\ ~result.raised
        /\ Join(result.parts) = NowToday[Upper(ast_node.function_name)])

\* ---------------------------------------------------------------------------
\* C22: a Conditional whose condition and then_branch are present compiles
\* to 'CASE WHEN <condition> THEN <then> ELSE <else> END' from its compiled
\* children; when else_branch is absent the else part is the NULL token, so
\* the output holds the literal segment 'ELSE NULL'.
C22_Conditional ==
    (/\ pc = "done"
     /\ ast_node.node_type = "CONDITIONAL"
     /\ ~IsNone(ast_node.condition) /\ ~IsNone(ast_node.then_branch)) =>
        LET head == "CASE WHEN " \o Compiled(ast_node.condition)
                        \o " THEN " \o Compiled(ast_node.then_branch)
            text == Join(result.parts)
        IN  /\ ~result.raised
            /\ IF IsNone(ast_node.else_branch)
               THEN text = head \o " ELSE NULL END"
               ELSE text = head \o " ELSE " \o Compiled(ast_node.else_branch) \o " END"

\* IF [A b] THEN 2 with no else branch
C22_Witness ==
    /\ pc = "done"
    /\ ast_node = Conditional(Field, Two, NoneNode)
    /\ table_context = "TABLE"
    /\ Join(result.parts) = "CASE WHEN ${TABLE}.a_b THEN 2 ELSE NULL END"

\* ---------------------------------------------------------------------------
\* C23: a Case with at least one when-clause compiles to the space-joined
\* sequence of 'CASE', the compiled case_expression if and only if one is
\* present, one 'WHEN <cond> THEN <result>' per when-clause in input order,
\* 'ELSE <compiled else>' when else_branch is present, and 'END'.
RECURSIVE WhenText(_, _)
WhenText(clauses, i) ==
    IF i > Len(clauses) THEN ""
    ELSE " WHEN " \o Compiled(clauses[i].condition)
            \o " THEN " \o Compiled(clauses[i].result)
            \o WhenText(clauses, i + 1)

C23_Case ==
    (/\ pc = "done"
     /\ ast_node.node_type = "CASE"
     /\ ast_node.when_clauses.some
     /\ Len(ast_node.when_clauses.items) >= 1) =>
        /\ ~result.raised
        /\ Join(result.parts) =
              "CASE"
              \o (IF IsNone(ast_node.case_expression) THEN ""
                  ELSE " " \o Compiled(ast_node.case_expression))
              \o WhenText(ast_node.when_clauses.items, 1)
              \o (IF IsNone(ast_node.else_branch) THEN ""
                  ELSE " ELSE " \o Compiled(ast_node.else_branch))
              \o " END"

\* a simple CASE on [A b] with two when-clauses and an else branch
C23_Witness ==
    /\ pc = "done"
    /\ ast_node = Case(Field, List(<<WhenClause(Field, Two), WhenClause(Two, Quoted)>>), Two)
    /\ table_context = "TABLE"
    /\ Join(result.parts)
         = "CASE ${TABLE}.a_b WHEN ${TABLE}.a_b THEN 2 WHEN 2 THEN 'x\\'' ELSE 2 END"

\* ---------------------------------------------------------------------------
\* C24: once the registration phase has finished, compile, resolve and
\* is_calculated are reentrant pure reads: under every interleaving of the
\* threads' statements each call returns what it returns when run alone, and
\* no statement changes the resolver's collections or a call's argument.
Alone(th) ==
    IF th.op = "resolve_field_reference" THEN resolve_field_reference(th.arg)
    ELSE IF th.op = "is_calculated_field" THEN is_calculated_field(th.arg)
    ELSE convert_to_lookml(th.arg, "TABLE")

C24_ReentrantReads ==
    [][threads' # threads =>
        /\ UNCHANGED <<original_to_clean, clean_to_original, registered_fields,
                       calculated_fields>>
        /\ \A t \in Threads :
              /\ threads[t].at # "idle" =>
                    /\ threads'[t].op = threads[t].op
                    /\ threads'[t].arg = threads[t].arg
              /\ threads'[t].at = "done" =>
                    threads'[t].ret = Some(Alone(threads'[t]))]_vars

\* t1 is inside the loop of get_clean_name('B') while t2 has returned from
\* resolve_field_reference('A') with the name found by its own loop
C24_Witness ==
    /\ threads["t1"].op = "resolve_field_reference"
    /\ threads["t1"].arg = <<"B">>
    /\ threads["t1"].at = "scan" /\ threads["t1"].k = 2
    /\ threads["t2"].op = "resolve_field_reference"
    /\ threads["t2"].arg = <<"A">>
    /\ threads["t2"].at = "done"
    /\ threads["t2"].ret = Some(<<"b">>)

\* ---------------------------------------------------------------------------
\* C25: reverse lookup inverts resolution: after any sequence of
\* register_field calls, for every registered pair (original, clean),
\* get_original_name(clean) returns original, that is
\* get_original_name(resolve_field_reference(original)) = original.
C25_RoundTrip ==
    \A o \in RegisteredOriginals :
        /\ get_original_name(LatestOf(o).clean_name) = Some(o)
        /\ get_original_name(resolve_field_reference(o)) = Some(o)

\* ---------------------------------------------------------------------------
\* C26: resolve_field_reference tries its matches in a fixed priority order:
\* exact, brackets stripped, brackets added, then case-insensitive against
\* those three forms; when several steps would match, the earliest step's
\* clean name is returned; the bracket-stripping step removes exactly one
\* enclosing '[' ... ']' pair.
\* The code strips with strip("[]"), which removes every leading and
\* trailing bracket character, paired or not.
StripOnePair(s) ==
    IF Len(s) >= 2 /\ s[1] = "[" /\ s[Len(s)] = "]"
    THEN SubSeq(s, 2, Len(s) - 1)
    ELSE s

C26_PriorityOrder ==
    \A x \in Queries :
        LET d == original_to_clean
            stripped == StripOnePair(x)
            bracketed == Bracketed(x)
            forms == {Lower(x), Lower(stripped), Lower(bracketed)}
            loose == {d[i].v : i \in {j \in 1..Len(d) : Lower(d[j].k) \in forms}}
            r == resolve_field_reference(x)
            hit(v) == v # <<>>
        IN  IF DictHas(d, x) /\ hit(DictGet(d, x)) THEN r = DictGet(d, x)
            ELSE IF DictHas(d, stripped) /\ hit(DictGet(d, stripped))
                 THEN r = DictGet(d, stripped)
            ELSE IF DictHas(d, bracketed) /\ hit(DictGet(d, bracketed))
                 THEN r = DictGet(d, bracketed)
            ELSE IF loose # {} THEN r \in loose
            ELSE r = x

\* ---------------------------------------------------------------------------
\* C27: the forward and the reverse map never fall out of sync: in every
\* reachable state, for every clean name c in clean_to_original,
\* original_to_clean[clean_to_original[c]] = c, so whenever
\* get_original_name(c) returns o, resolve_field_reference(o) returns c;
\* also after an original is registered again under another clean name.
C27_MapsInSync ==
    \A c \in DOMAIN clean_to_original :
        LET o == get_original_name(c).val
        IN  /\ DictHas(original_to_clean, o)
            /\ DictGet(original_to_clean, o) = c
            /\ resolve_field_reference(o) = c

\* ---------------------------------------------------------------------------
\* C28: every key of original_to_clean, every key of clean_to_original and
\* every member of calculated_fields is a member of registered_fields, so
\* is_registered(x) is true for every name that resolves by exact match or
\* is flagged calculated; clear() returns all four collections to empty.
C28_RegisteredCovers ==
    /\ DictKeys(original_to_clean) \subseteq registered_fields
    /\ DOMAIN clean_to_original \subseteq registered_fields
    /\ calculated_fields \subseteq registered_fields
    /\ \A x \in Queries :
          (DictHas(original_to_clean, x) \/ x \in calculated_fields) => is_registered(x)
    /\ LastCall.op = "clear" =>
          /\ original_to_clean = <<>>
          /\ DOMAIN clean_to_original = {}
          /\ registered_fields = {}
          /\ calculated_fields = {}

\* a calculated field registered after a clear that emptied an earlier
\* registration: its four spellings and its clean name are all there is
C28_Witness ==
    /\ Len(calls) = 3
    /\ calls[1].op = "register" /\ calls[2].op = "clear"
    /\ calls[3] = [op |-> "register", original_name |-> <<"[", "A", "]">>,
                   clean_name |-> <<"b">>, is_calculated |-> TRUE]
    /\ Cardinality(DictKeys(original_to_clean)) = 4
    /\ registered_fields = DictKeys(original_to_clean) \cup {<<"b">>}
    /\ calculated_fields = registered_fields

\* ---------------------------------------------------------------------------
\* C29: what create_clean_name_from_caption returns holds only characters of
\* [a-z0-9_], neither starts nor ends with an underscore and has no two
\* underscores in a row; so deriving a name from an already derived name
\* returns it unchanged.
C29_CleanShape ==
    \A i \in 1..Len(derived) :
        LET out == derived[i]
        IN  /\ \A j \in 1..Len(out) : out[j] \in LowerSet \cup Digits \cup {"_"}
            /\ out # <<>> => (out[1] # "_" /\ out[Len(out)] # "_")
            /\ \A j \in 1..(Len(out) - 1) : ~(out[j] = "_" /\ out[j + 1] = "_")
            /\ create_clean_name_from_caption(out) = out

\* 'A %' gives 'a_percent': the space and the underscore of '_percent'
\* became one underscore
C29_Witness ==
    /\ caption = <<"A", " ", "%">>
    /\ derived = <<<<"a", "_", "p", "e", "r", "c", "e", "n", "t">>>>

\* ---------------------------------------------------------------------------
\* C30: resolve_field_reference is idempotent on every input in every
\* reachable registry state: resolve(resolve(x)) = resolve(x) for all x,
\* also when one field's clean name equals, or case-insensitively matches,
\* another registered field's original name or alias.
C30_Idempotent ==
    \A x \in Queries :
        LET r == resolve_field_reference(x)
        IN  resolve_field_reference(r) = r

\* the registered spellings that r, with its brackets stripped or added,
\* matches when case is ignored, and that lead to another name than r
OtherOwners(r) ==
    LET forms == {Lower(r), Lower(Strip(r)), Lower(Bracketed(r))}
    IN  {i \in 1..Len(original_to_clean) :
            /\ Lower(original_to_clean[i].k) \in forms
            /\ original_to_clean[i].v # r}

\* What the code does: resolving a second time changes nothing unless the
\* first result is itself, in one of its forms, a registered spelling that
\* leads to another clean name.
C30_IdempotentUnlessAlias ==
    \A r \in {resolve_field_reference(x) : x \in Queries} :
        resolve_field_reference(r) = r \/ OtherOwners(r) # {}

\* 'A' is registered under 'a': '[A]' resolves to 'a', and 'a', which
\* matches the stored spelling '[a]' of the same field, resolves to itself
C30_Witness ==
    /\ Len(calls) = 1
    /\ calls[1].op = "register"
    /\ calls[1].original_name = <<"A">> /\ calls[1].clean_name = <<"a">>
    /\ DictHas(original_to_clean, <<"[", "a", "]">>)
    /\ resolve_field_reference(<<"[", "A", "]">>) = <<"a">>
    /\ resolve_field_reference(<<"a">>) = <<"a">>

====
